---- MODULE Spec2Model ----
(***************************************************************************)
(* SQLDumpNavi: the dump indexer (SQLDumpAnalyzer.analyze) and the         *)
(* statement replayer (create_table, import_data, main) of                 *)
(* src/dump-analiza.py.                                                    *)
(*                                                                         *)
(* A dump is a sequence of lines; a line is a sequence of lexical tokens   *)
(* and the regular expressions of analyze are evaluated on the tokens.     *)
(* Every token and the line terminator occupy one byte, so offsets         *)
(* (file.tell()) are sums of line lengths.                                 *)
(***************************************************************************)
EXTENDS Integers, Sequences, FiniteSets, TLC

(* ---------------------------- bounds ----------------------------------- *)
MaxLines == 4
MaxAnalyzeCalls == 2

(* ---------------------------- values ----------------------------------- *)
\* Python's None for an offset (create_table_start, create_table_end, range end)
None == -1
\* Python's None for current_table
NoTable == "<None>"

TableNames == {"a", "b"}
\* a name that never occurs in a dump (for the unknown-table requests)
UnknownName == "zz"
Identifiers == TableNames \cup {"id"}
\* tokens that start with a word character and are no identifier of the dump
OtherWords == {"LOCK"}

KwCreate == "CREATE TABLE "
KwInsert == "INSERT INTO "
\* the backtick character
Backtick == "BQ"
Space == " "
CloseTok == ");"

CreateLine(t) == <<KwCreate, Backtick, t, Backtick, " (">>
InsertLine(t) == <<KwInsert, Backtick, t, Backtick, " VALUES (1);">>
ColumnLine == <<Space, Backtick, "id", Backtick, " int,">>
CloseLine == <<CloseTok>>
BlankLine == <<>>
LockLine == <<"LOCK", " TABLES;">>

DumpLines ==
  {CreateLine(t) : t \in TableNames} \cup {InsertLine(t) : t \in TableNames}
    \cup {ColumnLine, CloseLine, BlankLine, LockLine}

Dumps == UNION {[1..n -> DumpLines] : n \in 0..MaxLines}

(* ------------------------ the file and offsets ------------------------- *)
\* bytes of a line including its terminator
LineLen(line) == Len(line) + 1

RECURSIVE OffsetAfter(_, _)
\* file.tell() after n lines of file d have been read
OffsetAfter(d, n) == IF n = 0 THEN 0 ELSE OffsetAfter(d, n - 1) + LineLen(d[n])

(* ------------------------ the regular expressions ---------------------- *)
\* the leading \w+ of a token, "" when the token does not start with a word character
Word(tok) ==
  IF tok \in Identifiers \cup OtherWords THEN tok
  ELSE IF tok = KwCreate THEN "CREATE"
  ELSE IF tok = KwInsert THEN "INSERT"
  ELSE ""

\* the identifier captured by  <keyword> BQ?(\w+)BQ?  at the start of the line
\* (BQ is the backtick), "" when there is no match
KeywordMatch(kw, line) ==
  IF Len(line) >= 2 /\ line[1] = kw
  THEN IF line[2] = Backtick
       THEN (IF Len(line) >= 3 THEN Word(line[3]) ELSE "")
       ELSE Word(line[2])
  ELSE ""

\* re.match(r'CREATE TABLE BQ?(?P<table_name>\w+)BQ?', line, re.IGNORECASE)
create_table_match(line) == KeywordMatch(KwCreate, line)

\* re.match(r'INSERT INTO BQ?(?P<table_name>\w+)BQ?', line, re.IGNORECASE)
insert_match(line) == KeywordMatch(KwInsert, line)

\* re.match(r'\s*BQ?(?P<column_name>\w+)BQ?', line)
column_match(line) ==
  LET i == IF Len(line) >= 1 /\ line[1] = Space THEN 2 ELSE 1
      j == IF Len(line) >= i /\ line[i] = Backtick THEN i + 1 ELSE i
  IN IF Len(line) >= j THEN Word(line[j]) ELSE ""

\* re.match(r'\);', line)
close_match(line) == Len(line) >= 1 /\ line[1] = CloseTok

(* ------------------------------ state ---------------------------------- *)
VARIABLES
  dump,           \* the dump file: a sequence of lines
  tables,         \* self.tables: table name -> entry
  current_table,  \* local variable of analyze
  pos,            \* number of lines analyze has read in the current pass
  calls,          \* number of analyze() calls started
  pc,             \* where the program is
  request,        \* the last replay request: operation, table, db_type, connection behaviour
  outcome,        \* how that request ended: "success", "error" (printed), "raised"
  log,            \* what that request did to the stream and the connection
  keys,           \* the keys of self.tables in insertion order (the dict's iteration order)
  stats           \* the rows last returned by get_table_stats

vars == <<dump, tables, current_table, pos, calls, pc, request, outcome, log, keys, stats>>

\* the entry created by a CREATE TABLE line (start = offset) or by setdefault (start = None)
NewEntry(start) ==
  [columns |-> <<>>, data |-> <<>>, insert_count |-> 0, estimated_size |-> 0,
   create_table_start |-> start, create_table_end |-> None,
   insert_positions |-> <<>>]

\* dict assignment self.tables[k] = v
Put(tb, k, v) == [x \in DOMAIN tb \cup {k} |-> IF x = k THEN v ELSE tb[x]]

NoRequest ==
  [op |-> "none", table |-> NoTable, db_type |-> "none", connect_ok |-> FALSE, fails |-> {}]

\* a replay request; fails is the set of ordinals of the connection.execute calls
\* that the connection rejects
Request(o, t, db, c, f) ==
  [op |-> o, table |-> t, db_type |-> db, connect_ok |-> c, fails |-> f]

Init ==
  /\ dump \in Dumps
  /\ tables = <<>>
  /\ current_table = NoTable
  /\ pos = 0
  /\ calls = 0
  /\ pc = "idle"
  /\ request = NoRequest
  /\ outcome = "none"
  /\ log = <<>>
  /\ keys = <<>>
  /\ stats = <<>>

(* --------------------------- analyze ----------------------------------- *)
\* lines 106-116: a CREATE TABLE line assigns a fresh entry to the named table
SchemaOpen(tb, t, start_pos) == Put(tb, t, NewEntry(start_pos))

\* AppendColumn that appends the column to every entry of the index
AppendColumnEverywhere(tb, cur, column_name) ==
  [x \in DOMAIN tb |-> [tb[x] EXCEPT !.columns = Append(@, column_name)]]

\* line 122: columns.append(column_name) on the current table
AppendColumn(tb, cur, column_name) ==
  [tb EXCEPT ![cur].columns = Append(@, column_name)]

\* line 126: create_table_end = file.tell() on the current table
SchemaClose(tb, cur, tell) ==
  [tb EXCEPT ![cur].create_table_end = tell]

\* lines 133-141: self.tables.setdefault(name, <entry without schema range>)
SetDefault(tb, t) == IF t \in DOMAIN tb THEN tb ELSE Put(tb, t, NewEntry(None))

\* InsertOpen that appends the range and forgets to count it
InsertOpenNoCount(tb, t, start_pos) ==
  LET tb1 == SetDefault(tb, t)
  IN [tb1 EXCEPT ![t].insert_positions = Append(@, <<start_pos, None>>)]

\* lines 131-143: an INSERT INTO line opens a range and counts it
InsertOpen(tb, t, start_pos) ==
  LET tb1 == SetDefault(tb, t)
  IN [tb1 EXCEPT ![t].insert_positions = Append(@, <<start_pos, None>>),
                 ![t].insert_count = @ + 1]

\* ExtendInsert that also counts the continuation line as an insert
ExtendInsertCounting(tb, cur, tell) ==
  LET n == Len(tb[cur].insert_positions)
  IN [tb EXCEPT ![cur].insert_positions[n] = <<@[1], tell>>,
                ![cur].insert_count = @ + 1]

\* lines 146-150: the last insert range of the current table ends after this line
ExtendInsert(tb, cur, tell) ==
  LET n == Len(tb[cur].insert_positions)
  IN [tb EXCEPT ![cur].insert_positions[n] = <<@[1], tell>>]

\* lines 101-150: the body of the loop for one line; the result is the new
\* (tables, current_table)
ProcessLine(tb, cur, line, pos_before_line, tell) ==
  IF create_table_match(line) # ""
  THEN [tables |-> SchemaOpen(tb, create_table_match(line), pos_before_line),
        current_table |-> create_table_match(line)]
  ELSE IF cur # NoTable /\ column_match(line) # ""
  THEN [tables |-> AppendColumn(tb, cur, column_match(line)), current_table |-> cur]
  ELSE IF cur # NoTable /\ close_match(line)
  THEN [tables |-> SchemaClose(tb, cur, tell), current_table |-> cur]
  ELSE IF insert_match(line) # ""
  THEN [tables |-> InsertOpen(tb, insert_match(line), pos_before_line),
        current_table |-> insert_match(line)]
  ELSE IF cur # NoTable /\ tb[cur].insert_positions # <<>>
  THEN [tables |-> ExtendInsert(tb, cur, tell), current_table |-> cur]
  ELSE [tables |-> tb, current_table |-> cur]

\* the iteration order of the dict after an assignment: a new key goes last, an
\* existing key keeps its place
KeysAfter(ks, tb) ==
  LET new == DOMAIN tb \ {ks[i] : i \in 1..Len(ks)}
  IN IF new = {} THEN ks ELSE Append(ks, CHOOSE k \in new : TRUE)

\* lines 91-98: analyze() opens the file, counts the lines, rewinds
AnalyzeStart ==
  /\ pc \in {"idle", "analyzed"}
  /\ calls < MaxAnalyzeCalls
  /\ pc' = "analyzing"
  /\ calls' = calls + 1
  /\ pos' = 0
  /\ current_table' = NoTable
  /\ UNCHANGED <<dump, tables, request, outcome, log, keys, stats>>

\* lines 100-150: one iteration of the loop
AnalyzeLine ==
  /\ pc = "analyzing"
  /\ pos < Len(dump)
  /\ LET r == ProcessLine(tables, current_table, dump[pos + 1],
                          OffsetAfter(dump, pos), OffsetAfter(dump, pos + 1))
     IN /\ tables' = r.tables
        /\ current_table' = r.current_table
        /\ keys' = KeysAfter(keys, r.tables)
  /\ pos' = pos + 1
  /\ UNCHANGED <<dump, calls, pc, request, outcome, log, stats>>

\* line 100: the loop has run total_lines times; analyze returns
AnalyzeEnd ==
  /\ pc = "analyzing"
  /\ pos = Len(dump)
  /\ pc' = "analyzed"
  /\ UNCHANGED <<dump, tables, current_table, pos, calls, request, outcome, log, keys, stats>>

(* ----------------------- create_table, import_data --------------------- *)
DbTypes == {"mysql", "postgres", "other"}
Supported == {"mysql", "postgres"}
RequestNames == TableNames \cup {UnknownName}

\* events of a replay: what was done to the stream and to the connection
Ev(kind, x, y, good) == [ev |-> kind, a |-> x, b |-> y, ok |-> good]

FileSize(d) == OffsetAfter(d, Len(d))

\* file.seek(start); file.read(n): the span of the file that is read
\* (a negative n reads to the end of the file)
ReadSpan(d, start, n) ==
  LET stop == IF n < 0 \/ start + n > FileSize(d) THEN FileSize(d) ELSE start + n
  IN <<start, IF stop < start THEN start ELSE stop>>

\* lines 186-199 of create_table: the connection part, after the statement was read
CreateConnect(span, db_type, connect_ok, fails, lg) ==
  IF db_type \notin Supported
  THEN [outcome |-> "error", log |-> lg]
  ELSE IF ~connect_ok
  THEN [outcome |-> "error", log |-> Append(lg, Ev("connect", None, None, FALSE))]
  ELSE LET lg1 == Append(lg, Ev("connect", None, None, TRUE))
           lg2 == Append(lg1, Ev("execute", span[1], span[2], 1 \notin fails))
       IN IF 1 \in fails
          THEN [outcome |-> "error", log |-> lg2]
          ELSE [outcome |-> "success",
                log |-> Append(lg2, Ev("close", None, None, TRUE))]

\* create_table that reads to the end of the file when the schema range has no
\* end, instead of failing
CreateTableRunReadToEnd(tb, d, t, db_type, connect_ok, fails) ==
  IF t \notin DOMAIN tb
  THEN [outcome |-> "raised", log |-> <<>>]
  ELSE LET start_pos == tb[t].create_table_start
           end_pos == tb[t].create_table_end
           lg0 == <<Ev("open", None, None, TRUE)>>
       IN IF start_pos = None
          THEN [outcome |-> "raised", log |-> lg0]
          ELSE LET span == ReadSpan(d, start_pos,
                                    IF end_pos = None THEN -1 ELSE end_pos - start_pos)
                   lg1 == lg0 \o <<Ev("seek", start_pos, None, TRUE),
                                   Ev("read", span[1], span[2], TRUE)>>
               IN CreateConnect(span, db_type, connect_ok, fails, lg1)

\* lines 174-199: create_table(table_name, db_type, ...)
CreateTableRun(tb, d, t, db_type, connect_ok, fails) ==
  IF t \notin DOMAIN tb
  THEN [outcome |-> "raised", log |-> <<>>]
  ELSE LET start_pos == tb[t].create_table_start
           end_pos == tb[t].create_table_end
           lg0 == <<Ev("open", None, None, TRUE)>>
       IN IF start_pos = None
          THEN [outcome |-> "raised", log |-> lg0]
          ELSE IF end_pos = None
          THEN [outcome |-> "raised",
                log |-> Append(lg0, Ev("seek", start_pos, None, TRUE))]
          ELSE LET span == ReadSpan(d, start_pos, end_pos - start_pos)
                   lg1 == lg0 \o <<Ev("seek", start_pos, None, TRUE),
                                   Ev("read", span[1], span[2], TRUE)>>
               IN CreateConnect(span, db_type, connect_ok, fails, lg1)

RECURSIVE ImportLoop(_, _, _, _, _)
\* lines 217-224: the loop over insert_positions from index i on; fails is the
\* set of ordinals of the connection.execute calls that raise
ImportLoop(d, ranges, i, fails, lg) ==
  IF i > Len(ranges)
  THEN [outcome |-> "success", log |-> Append(lg, Ev("close", None, None, TRUE))]
  ELSE LET start_pos == ranges[i][1]
           end_pos == ranges[i][2]
           lg1 == Append(lg, Ev("seek", start_pos, None, TRUE))
       IN IF end_pos = None
          THEN [outcome |-> "error", log |-> lg1]
          ELSE LET span == ReadSpan(d, start_pos, end_pos - start_pos)
                   lg2 == lg1 \o <<Ev("read", span[1], span[2], TRUE),
                                   Ev("execute", span[1], span[2], i \notin fails)>>
               IN IF i \in fails
                  THEN [outcome |-> "error", log |-> lg2]
                  ELSE ImportLoop(d, ranges, i + 1, fails, lg2)

\* import_data that looks the table up only after it has connected
ImportDataRunLateLookup(tb, d, t, db_type, connect_ok, fails) ==
  IF db_type \notin Supported
  THEN [outcome |-> "error", log |-> <<>>]
  ELSE IF ~connect_ok
  THEN [outcome |-> "error", log |-> <<Ev("connect", None, None, FALSE)>>]
  ELSE IF t \notin DOMAIN tb
  THEN [outcome |-> "error",
        log |-> <<Ev("connect", None, None, TRUE), Ev("open", None, None, TRUE)>>]
  ELSE ImportLoop(d, tb[t].insert_positions, 1, fails,
                  <<Ev("connect", None, None, TRUE), Ev("open", None, None, TRUE)>>)

\* lines 201-224: import_data(table_name, db_type, ...)
ImportDataRun(tb, d, t, db_type, connect_ok, fails) ==
  IF t \notin DOMAIN tb
  THEN [outcome |-> "raised", log |-> <<>>]
  ELSE IF db_type \notin Supported
  THEN [outcome |-> "error", log |-> <<>>]
  ELSE IF ~connect_ok
  THEN [outcome |-> "error", log |-> <<Ev("connect", None, None, FALSE)>>]
  ELSE ImportLoop(d, tb[t].insert_positions, 1, fails,
                  <<Ev("connect", None, None, TRUE), Ev("open", None, None, TRUE)>>)

\* lines 222-224: what import_data reports when it ends: one of two printed
\* messages, neither of which carries a number of failed statements
ImportReport(out) == [success |-> out = "success", failed_count |-> None]

\* the ordinals of the execute calls a connection may reject
FailSets(tb, t) ==
  IF t \in DOMAIN tb THEN SUBSET (1..Len(tb[t].insert_positions)) ELSE {{}}

\* a caller invokes create_table on the analyzed object
CreateTable ==
  /\ pc = "analyzed"
  /\ \E t \in RequestNames, db_type \in DbTypes, connect_ok \in BOOLEAN, fails \in SUBSET {1} :
       LET r == CreateTableRun(tables, dump, t, db_type, connect_ok, fails)
       IN /\ request' = Request("create_table", t, db_type, connect_ok, fails)
          /\ outcome' = r.outcome
          /\ log' = r.log
  /\ pc' = "called"
  /\ UNCHANGED <<dump, tables, current_table, pos, calls, keys, stats>>

\* a caller invokes import_data on the analyzed object
ImportData ==
  /\ pc = "analyzed"
  /\ \E t \in RequestNames, db_type \in DbTypes, connect_ok \in BOOLEAN :
       \E fails \in FailSets(tables, t) :
         LET r == ImportDataRun(tables, dump, t, db_type, connect_ok, fails)
         IN /\ request' = Request("import_data", t, db_type, connect_ok, fails)
            /\ outcome' = r.outcome
            /\ log' = r.log
  /\ pc' = "called"
  /\ UNCHANGED <<dump, tables, current_table, pos, calls, keys, stats>>

(* --------------------------- get_table_stats --------------------------- *)
BytesPerKB == 1024

\* line 169: f"{estimated_size / 1024:.2f} KB", as the number of hundredths of
\* a KB that the text shows (the quotient is rounded to two decimals, ties to
\* the even digit)
FormatKB(size) ==
  LET q == (size * 100) \div BytesPerKB
      r == (size * 100) % BytesPerKB
  IN IF 2 * r > BytesPerKB \/ (2 * r = BytesPerKB /\ q % 2 = 1) THEN q + 1 ELSE q

\* lines 166-170: the row of one table
StatsRow(name, info) == <<name, info.insert_count, FormatKB(info.estimated_size)>>

\* get_table_stats that returns the rows in dict order, without sorting
SortByCountSkipped(rows) == rows

RECURSIVE SortByCount(_)
\* line 171: stats.sort(key=lambda x: x[1]), a stable ascending sort
SortByCount(rows) ==
  IF rows = <<>> THEN <<>>
  ELSE LET last == rows[Len(rows)]
           sorted == SortByCount(SubSeq(rows, 1, Len(rows) - 1))
           k == Cardinality({i \in 1..Len(sorted) : sorted[i][2] <= last[2]})
       IN SubSeq(sorted, 1, k) \o <<last>> \o SubSeq(sorted, k + 1, Len(sorted))

\* lines 163-172: get_table_stats()
get_table_stats(tb, ks) ==
  SortByCount([i \in 1..Len(ks) |-> StatsRow(ks[i], tb[ks[i]])])

StatsRequest == Request("get_table_stats", NoTable, "none", FALSE, {})

\* a caller invokes get_table_stats on the analyzed object
GetTableStats ==
  /\ pc = "analyzed"
  /\ stats' = get_table_stats(tables, keys)
  /\ request' = StatsRequest
  /\ outcome' = "success"
  /\ log' = <<>>
  /\ pc' = "called"
  /\ UNCHANGED <<dump, tables, current_table, pos, calls, keys>>

Next ==
  AnalyzeStart \/ AnalyzeLine \/ AnalyzeEnd \/ CreateTable \/ ImportData \/ GetTableStats

Spec == Init /\ [][Next]_vars

(* ------------------------------- main ---------------------------------- *)
\* line 242: main analyzes the dump once
MainAnalyze == calls = 0 /\ AnalyzeStart

\* line 259: main calls create_table with --table; an exception ends main
MainCreate ==
  /\ pc = "analyzed"
  /\ \E t \in RequestNames, db_type \in Supported, connect_ok \in BOOLEAN, fails \in SUBSET {1} :
       LET r == CreateTableRun(tables, dump, t, db_type, connect_ok, fails)
       IN /\ request' = Request("create_table", t, db_type, connect_ok, fails)
          /\ outcome' = r.outcome
          /\ log' = r.log
          /\ pc' = IF r.outcome = "raised" THEN "crashed" ELSE "created"
  /\ UNCHANGED <<dump, tables, current_table, pos, calls, keys, stats>>

\* line 260: main calls import_data with the same table
MainImport ==
  /\ pc = "created"
  /\ \E db_type \in Supported, connect_ok \in BOOLEAN :
       \E fails \in FailSets(tables, request.table) :
         LET r == ImportDataRun(tables, dump, request.table, db_type, connect_ok, fails)
         IN /\ request' = Request("import_data", request.table, db_type, connect_ok, fails)
            /\ outcome' = r.outcome
            /\ log' = r.log
            /\ pc' = IF r.outcome = "raised" THEN "crashed" ELSE "done"
  /\ UNCHANGED <<dump, tables, current_table, pos, calls, keys, stats>>

\* lines 245-250: without --table main prints the statistics and returns
MainStats ==
  /\ pc = "analyzed"
  /\ stats' = get_table_stats(tables, keys)
  /\ request' = StatsRequest
  /\ outcome' = "success"
  /\ log' = <<>>
  /\ pc' = "done"
  /\ UNCHANGED <<dump, tables, current_table, pos, calls, keys>>

NextMain ==
  MainAnalyze \/ AnalyzeLine \/ AnalyzeEnd \/ MainCreate \/ MainImport \/ MainStats

SpecMain == Init /\ [][NextMain]_vars

(* ------------------------ properties: analyze -------------------------- *)
\* the line analyze is about to process
Processing == pc = "analyzing" /\ pos < Len(dump)
NextLine == dump[pos + 1]

\* analyze has returned on a fresh analyzer (one call)
AnalyzedOnce == pc = "analyzed" /\ calls = 1

\* d is one schema block for t with k column lines, followed only by
\* single-line INSERT INTO statements for t
IsSchemaDump(d, t, k) ==
  /\ Len(d) >= k + 2
  /\ d[1] = CreateLine(t)
  /\ \A i \in 2..(k + 1) : d[i] = ColumnLine
  /\ d[k + 2] = CloseLine
  /\ \A i \in (k + 3)..Len(d) : d[i] = InsertLine(t)

\* C1: after analyze on a fresh analyzer, a dump made of one schema block for T
\* followed by N single-line INSERT INTO statements for T has insert_count(T) = N.
C1_InsertCountOfSchemaDump ==
  \A t \in TableNames : \A k \in 0..MaxLines :
    (AnalyzedOnce /\ IsSchemaDump(dump, t, k))
      => (t \in DOMAIN tables /\ tables[t].insert_count = Len(dump) - (k + 2))

\* what the entry of t holds, an absent entry counting as empty
RangesOf(tb, t) == IF t \in DOMAIN tb THEN tb[t].insert_positions ELSE <<>>
CountOf(tb, t) == IF t \in DOMAIN tb THEN tb[t].insert_count ELSE 0

\* C2: every line matching the insert-open pattern is handled as insert-open,
\* whatever the current table and although it also matches the column pattern:
\* a range is appended and insert_count incremented for the named table, and
\* no column is appended.
C2_InsertOpenAlwaysHandled ==
  [][(Processing /\ insert_match(NextLine) # "")
       => LET t == insert_match(NextLine)
          IN /\ t \in DOMAIN tables'
             /\ Len(tables'[t].insert_positions) = Len(RangesOf(tables, t)) + 1
             /\ tables'[t].insert_count = CountOf(tables, t) + 1
             /\ \A u \in DOMAIN tables :
                  u \in DOMAIN tables' /\ tables'[u].columns = tables[u].columns]_vars

\* the schema definition of t is open: t is current, its schema range has a
\* start and no end yet
SchemaOpenFor(t) ==
  /\ current_table = t
  /\ t \in DOMAIN tables
  /\ tables[t].create_table_start # None
  /\ tables[t].create_table_end = None

\* C3: a line appends to the columns of a table only while that table's schema
\* definition is open; lines after the schema body never add a column.
C3_ColumnsOnlyInsideSchema ==
  [][Processing
       => \A t \in DOMAIN tables :
            (t \in DOMAIN tables' /\ Len(tables'[t].columns) > Len(tables[t].columns))
              => SchemaOpenFor(t)]_vars

\* C4: in every state during and after analyze, every entry has
\* insert_count = len(insert_positions).
C4_CountEqualsRanges ==
  \A t \in DOMAIN tables : tables[t].insert_count = Len(tables[t].insert_positions)

\* C4 witness: analyze is running and an insert statement has been recorded
C4_Witness ==
  /\ pc = "analyzing"
  /\ \E t \in DOMAIN tables : tables[t].insert_count >= 1

\* C5: once analyze has reached the end of the stream, every recorded insert
\* range is closed: its end is set and start <= end.
C5_RangesClosedAtEnd ==
  pc = "analyzed"
    => \A t \in DOMAIN tables :
         \A i \in 1..Len(tables[t].insert_positions) :
           LET r == tables[t].insert_positions[i]
           IN r[2] # None /\ r[1] <= r[2]

(* ------------------------ properties: replay --------------------------- *)
\* the connection.execute calls of the last request, in order
Executes(lg) == SelectSeq(lg, LAMBDA e : e.ev = "execute")
\* the connection.connect calls of the last request
Connects(lg) == SelectSeq(lg, LAMBDA e : e.ev = "connect")

\* the schema range of t is not fully closed
SchemaNotClosed(t) ==
  /\ t \in DOMAIN tables
  /\ (tables[t].create_table_start = None \/ tables[t].create_table_end = None)

\* the last request was create_table and its schema statement failed: the
\* connection rejected it, or the schema range was missing or unclosed
SchemaReplayFailed ==
  /\ request.op = "create_table"
  /\ \/ \E i \in 1..Len(log) : log[i].ev = "execute" /\ ~log[i].ok
     \/ (outcome = "raised" /\ SchemaNotClosed(request.table))

\* C6: in main, when create_table's schema statement failed (rejected by the
\* connection, or schema range missing or unclosed), import_data is not
\* attempted afterwards and no insert statement is submitted.
C6_NoImportAfterFailedSchema ==
  [][SchemaReplayFailed
       => (request'.op # "import_data" /\ Executes(log') = <<>>)]_vars

\* C7: in import_data a failing connection.execute never stops the iteration:
\* every insert range of the table is still submitted to connection.execute.
C7_FailureDoesNotStopIteration ==
  (/\ pc = "called"
   /\ request.op = "import_data"
   /\ request.table \in DOMAIN tables
   /\ \E i \in 1..Len(log) : log[i].ev = "execute" /\ ~log[i].ok)
    => Len(Executes(log)) = Len(tables[request.table].insert_positions)

\* C8: create_table on a table whose schema range is not fully closed fails
\* with an error raised to the caller, opens no connection and submits no
\* statement.
C8_MissingSchemaRaises ==
  (pc = "called" /\ request.op = "create_table" /\ SchemaNotClosed(request.table))
    => (outcome = "raised" /\ Connects(log) = <<>> /\ Executes(log) = <<>>)

\* C8 witness: create_table was called with a working connection on a table
\* whose schema was opened and never closed
C8_Witness ==
  /\ pc = "called"
  /\ request.op = "create_table"
  /\ request.db_type \in Supported /\ request.connect_ok /\ request.fails = {}
  /\ request.table \in DOMAIN tables
  /\ tables[request.table].create_table_start # None
  /\ tables[request.table].create_table_end = None

\* C9: an insert-open line naming a table without entry creates the entry with
\* empty columns, no schema range and the insert recorded (insert_count = 1).
C9_InsertCreatesEntry ==
  [][(Processing /\ insert_match(NextLine) # "" /\ insert_match(NextLine) \notin DOMAIN tables)
       => LET t == insert_match(NextLine)
          IN /\ t \in DOMAIN tables'
             /\ tables'[t].columns = <<>>
             /\ tables'[t].create_table_start = None
             /\ tables'[t].create_table_end = None
             /\ tables'[t].insert_count = 1
             /\ Len(tables'[t].insert_positions) = 1]_vars

\* the span of every insert range of t, in index order
RangeSpans(t) ==
  [i \in 1..Len(tables[t].insert_positions) |->
     <<tables[t].insert_positions[i][1], tables[t].insert_positions[i][2]>>]
\* the spans submitted to connection.execute, in order
ExecutedSpans(lg) == [i \in 1..Len(Executes(lg)) |-> <<Executes(lg)[i].a, Executes(lg)[i].b>>]

\* C10: for every table of the index, import_data over a connection that
\* accepts every statement submits exactly one connection.execute per insert
\* range, carrying the span of that range, and reports success.
C10_ImportSubmitsEveryRange ==
  (/\ pc = "called"
   /\ request.op = "import_data"
   /\ request.table \in DOMAIN tables
   /\ request.db_type \in Supported /\ request.connect_ok /\ request.fails = {})
    => (outcome = "success" /\ ExecutedSpans(log) = RangeSpans(request.table))

(* ------------------- properties: order, frames, ranges ----------------- *)
\* C11: the insert ranges of every table are in file order (start offsets
\* strictly increasing in list order), and import_data submits the statements
\* in exactly that order.
C11_FileOrderKept ==
  /\ \A t \in DOMAIN tables :
       \A i, j \in 1..Len(tables[t].insert_positions) :
         i < j => tables[t].insert_positions[i][1] < tables[t].insert_positions[j][1]
  /\ (pc = "called" /\ request.op = "import_data" /\ request.table \in DOMAIN tables)
       => \A k \in 1..Len(Executes(log)) :
            Executes(log)[k].a = tables[request.table].insert_positions[k][1]

\* C12: a schema-open line for a table that already has an entry keeps the
\* insert ranges and the insert_count recorded for it before the line.
C12_SchemaOpenKeepsInserts ==
  [][(Processing /\ create_table_match(NextLine) \in DOMAIN tables)
       => LET t == create_table_match(NextLine)
          IN /\ t \in DOMAIN tables'
             /\ tables'[t].insert_positions = tables[t].insert_positions
             /\ tables'[t].insert_count = tables[t].insert_count]_vars

\* a caller is invoking create_table or import_data in this step
ReplayCall == pc = "analyzed" /\ pc' = "called" /\ request'.op \in {"create_table", "import_data"}

\* C13: create_table and import_data with a table name that is no key of the
\* index raise to the caller and do nothing: no stream is opened or sought, no
\* connection is opened, no statement is executed, the index is unchanged.
C13_UnknownTableNoAction ==
  [][(ReplayCall /\ request'.table \notin DOMAIN tables)
       => (outcome' = "raised" /\ log' = <<>> /\ tables' = tables)]_vars

\* C13 witness: import_data was called with a working connection and a name
\* that is no key of a non-empty index
C13_Witness ==
  /\ pc = "called"
  /\ request.op = "import_data"
  /\ request.db_type \in Supported /\ request.connect_ok
  /\ tables # <<>>
  /\ request.table \notin DOMAIN tables

\* C14: the schema range of every table is well formed in every state: an end
\* implies a start with start <= end; a table that only received insert
\* statements has neither start nor end.
C14_SchemaRangeWellFormed ==
  \A t \in DOMAIN tables :
    tables[t].create_table_end # None
      => (tables[t].create_table_start # None
          /\ tables[t].create_table_start <= tables[t].create_table_end)

\* the line of d that begins at offset off (0 when there is none)
LineAt(d, off) ==
  IF \E k \in 1..Len(d) : OffsetAfter(d, k - 1) = off
  THEN CHOOSE k \in 1..Len(d) : OffsetAfter(d, k - 1) = off
  ELSE 0

\* a line matching the schema-open or the insert-open pattern
Structural(line) == create_table_match(line) # "" \/ insert_match(line) # ""

\* the offset at which the first structural line after line k of d begins,
\* the end of the stream when no structural line follows
NextStructuralOffset(d, k) ==
  LET later == {j \in (k + 1)..Len(d) : Structural(d[j])}
  IN IF later = {} THEN FileSize(d)
     ELSE OffsetAfter(d, (CHOOSE j \in later : \A m \in later : j <= m) - 1)

\* C15: after analyze, the end of every insert range is the offset at which the
\* next structural line after the range's opening line begins, or the end of
\* the stream when none follows.
C15_RangeEndsAtNextStructural ==
  AnalyzedOnce
    => \A t \in DOMAIN tables :
         \A i \in 1..Len(tables[t].insert_positions) :
           LET r == tables[t].insert_positions[i]
           IN r[2] = NextStructuralOffset(dump, LineAt(dump, r[1]))

(* ------------------- analyze of src/DeepSeekDump.py -------------------- *)
\* lines 143-144: the loop takes its lines from the file iterator and then asks
\* file.tell(); a text stream refuses tell() while it is being iterated and
\* raises OSError
TellWhileIterating == "OSError"

\* lines 134-141: analyze() counts the lines and opens the file
DSAnalyzeStart ==
  /\ pc = "idle"
  /\ pc' = "ds_analyzing"
  /\ pos' = 0
  /\ current_table' = NoTable
  /\ UNCHANGED <<dump, tables, calls, request, outcome, log, keys, stats>>

\* lines 143-144 and 185-186: the iterator yields a line, file.tell() raises,
\* the handler of IOError prints the error and analyze returns; lines 145-184
\* are not reached
DSAnalyzeLine ==
  /\ pc = "ds_analyzing"
  /\ pos < Len(dump)
  /\ TellWhileIterating = "OSError"
  /\ outcome' = "error"
  /\ pc' = "ds_analyzed"
  /\ UNCHANGED <<dump, tables, current_table, pos, calls, request, log, keys, stats>>

\* line 143: the file has no line (left); analyze returns
DSAnalyzeEnd ==
  /\ pc = "ds_analyzing"
  /\ pos = Len(dump)
  /\ outcome' = "success"
  /\ pc' = "ds_analyzed"
  /\ UNCHANGED <<dump, tables, current_table, pos, calls, request, log, keys, stats>>

NextDeepSeek == DSAnalyzeStart \/ DSAnalyzeLine \/ DSAnalyzeEnd

SpecDeepSeek == Init /\ [][NextDeepSeek]_vars

(* ------------------ properties: reports and statistics ----------------- *)
\* the connection.execute calls of the last request that the connection rejected
FailedExecutes(lg) == SelectSeq(lg, LAMBDA e : e.ev = "execute" /\ ~e.ok)

\* C16: when at least one connection.execute call failed, import_data reports
\* the number of failed statements at the end of the call and does not report
\* plain success.
C16_FailureCountReported ==
  (pc = "called" /\ request.op = "import_data" /\ Len(FailedExecutes(log)) >= 1)
    => /\ ~ImportReport(outcome).success
       /\ ImportReport(outcome).failed_count = Len(FailedExecutes(log))

\* estimated_size is insert_count times one positive constant, the same for
\* every table
SizeProportional ==
  /\ \A t \in DOMAIN tables :
       IF tables[t].insert_count = 0
       THEN tables[t].estimated_size = 0
       ELSE tables[t].estimated_size > 0
            /\ tables[t].estimated_size % tables[t].insert_count = 0
  /\ \A t, u \in DOMAIN tables :
       tables[t].estimated_size * tables[u].insert_count
         = tables[u].estimated_size * tables[t].insert_count

\* C17: after analyze every entry has estimated_size = insert_count * C for one
\* fixed positive C (so insert_count > 0 gives estimated_size > 0), and
\* get_table_stats reports that value.
C17_EstimatedSizeDerived ==
  /\ pc \in {"analyzed", "called"} => SizeProportional
  /\ (pc = "called" /\ request.op = "get_table_stats")
       => \A i \in 1..Len(stats) :
            stats[i][3] = FormatKB(tables[stats[i][1]].estimated_size)

\* C18: get_table_stats returns exactly one row per table of the index, in
\* non-decreasing order of insert_count, and leaves the index as it was.
C18_StatsSortedOnePerTable ==
  [][(pc = "analyzed" /\ request'.op = "get_table_stats")
       => /\ tables' = tables
          /\ Len(stats') = Cardinality(DOMAIN tables)
          /\ {stats'[i][1] : i \in 1..Len(stats')} = DOMAIN tables
          /\ \A i \in 1..Len(stats') : stats'[i][2] = tables[stats'[i][1]].insert_count
          /\ \A i, j \in 1..Len(stats') : i < j => stats'[i][2] <= stats'[j][2]]_vars

\* C18 witness: get_table_stats has returned for an index whose first table
\* has more inserts than its second, so that the rows had to be reordered
C18_Witness ==
  /\ pc = "called"
  /\ request.op = "get_table_stats"
  /\ Len(keys) >= 2
  /\ tables[keys[1]].insert_count > tables[keys[2]].insert_count
  /\ stats[1][1] = keys[2]

\* C20: analyze of DeepSeekDump.py never raises, whatever the lines, and the
\* pass continues to the end of the stream.
C20_DeepSeekPassCompletes ==
  pc = "ds_analyzed" => (outcome = "success" /\ pos = Len(dump))

(* ------------------- properties: frames of analyze --------------------- *)
\* C21: a schema-close line sets create_table_end only while the schema
\* definition of the current table is open; for a table whose schema range is
\* closed, or that was made current by an insert line, no line other than a
\* schema-open line for that table changes create_table_start or
\* create_table_end.
C21_SchemaRangeFrozen ==
  [][Processing
       => \A t \in DOMAIN tables :
            (~SchemaOpenFor(t) /\ create_table_match(NextLine) # t)
              => /\ t \in DOMAIN tables'
                 /\ tables'[t].create_table_start = tables[t].create_table_start
                 /\ tables'[t].create_table_end = tables[t].create_table_end]_vars

\* a line matched by none of the four patterns of analyze
Unmatched(line) ==
  /\ create_table_match(line) = ""
  /\ column_match(line) = ""
  /\ ~close_match(line)
  /\ insert_match(line) = ""

\* the insert ranges rs2 are rs1, except that the end of the last one may have
\* become the offset tell
SameButLastEnd(rs1, rs2, tell) ==
  /\ Len(rs2) = Len(rs1)
  /\ \A i \in 1..Len(rs1) :
       \/ rs2[i] = rs1[i]
       \/ (i = Len(rs1) /\ rs2[i] = <<rs1[i][1], tell>>)

\* C22: a line matched by none of the four patterns leaves the current table,
\* the table names, every columns list, schema range, insert_count and number
\* of insert ranges unchanged; only the end of the last insert range of the
\* current table may become the offset just after the line.
C22_UnmatchedLineFrame ==
  [][(Processing /\ Unmatched(NextLine))
       => /\ current_table' = current_table
          /\ DOMAIN tables' = DOMAIN tables
          /\ \A t \in DOMAIN tables :
               /\ tables'[t].columns = tables[t].columns
               /\ tables'[t].create_table_start = tables[t].create_table_start
               /\ tables'[t].create_table_end = tables[t].create_table_end
               /\ tables'[t].insert_count = tables[t].insert_count
               /\ IF t = current_table
                  THEN SameButLastEnd(tables[t].insert_positions,
                                      tables'[t].insert_positions,
                                      OffsetAfter(dump, pos + 1))
                  ELSE tables'[t].insert_positions = tables[t].insert_positions]_vars

\* C22 witness: analyze has just processed an unmatched line while the current
\* table had an insert range, whose end is now the offset after that line
C22_Witness ==
  /\ pc = "analyzing"
  /\ pos >= 1
  /\ Unmatched(dump[pos])
  /\ current_table \in DOMAIN tables
  /\ tables[current_table].insert_positions # <<>>
  /\ LET rs == tables[current_table].insert_positions
     IN rs[Len(rs)][2] = OffsetAfter(dump, pos)

\* C23: in create_table and import_data every connection that connect() opened
\* is closed by close() before the call returns, on every path.
C23_ConnectionClosed ==
  (request.op \in {"create_table", "import_data"}
   /\ \E i \in 1..Len(log) : log[i].ev = "connect" /\ log[i].ok)
    => \E i \in 1..Len(log) : log[i].ev = "close"

RECURSIVE AnalyzePass(_, _, _, _)
\* the index and current table after the first n lines of d in one pass that
\* started from the index tb
AnalyzePass(tb, cur, d, n) ==
  IF n = 0 THEN [tables |-> tb, current_table |-> cur]
  ELSE LET before == AnalyzePass(tb, cur, d, n - 1)
       IN ProcessLine(before.tables, before.current_table, d[n],
                      OffsetAfter(d, n - 1), OffsetAfter(d, n))

\* the index a first analyze() of d leaves
FirstPass(d) == AnalyzePass(<<>>, NoTable, d, Len(d)).tables

\* C24: a second analyze() on the same object over the unchanged dump leaves
\* the index equal to what the first call left; nothing is recorded twice.
C24_SecondAnalyzeSameIndex ==
  (pc = "analyzed" /\ calls = 2) => tables = FirstPass(dump)

\* current_table, when set, is a key of the index
CurrentIsKey(cur, tb) == cur # NoTable => cur \in DOMAIN tb

\* C25: during analyze current_table, when set, is a key of the index, and a
\* processed line changes at most the entry of the table that is current after
\* the line; every other entry is unchanged.
C25_OnlyCurrentEntryChanges ==
  [][/\ CurrentIsKey(current_table, tables)
     /\ CurrentIsKey(current_table', tables')
     /\ Processing
          => \A t \in DOMAIN tables :
               t # current_table' => (t \in DOMAIN tables' /\ tables'[t] = tables[t])]_vars

\* C25 witness: analyze has just appended a column to the current table while
\* the index holds a second table with a column of its own
C25_Witness ==
  /\ pc = "analyzing"
  /\ pos >= 1
  /\ column_match(dump[pos]) # "" /\ create_table_match(dump[pos]) = ""
  /\ current_table \in DOMAIN tables
  /\ tables[current_table].columns # <<>>
  /\ \E t \in DOMAIN tables : t # current_table /\ tables[t].columns # <<>>

====
